---------------------------- MODULE Spec2Model ----------------------------
(***************************************************************************)
(* A model of jpath (src/jpath.go): the segment regexp built by init(),   *)
(* Jpath.Query and its three filters, the single-value typed accessors    *)
(* and unmarshal.                                                          *)
(*                                                                         *)
(* Text (path expressions, object keys, index specs) is a sequence of     *)
(* one-character strings, so that the regexp, strconv.Atoi and            *)
(* strings.Split are computed character by character.                     *)
(*                                                                         *)
(* A JSON value, as encoding/json decodes it into interface{}:            *)
(*   nil                    [t |-> "null"]                                 *)
(*   bool                   [t |-> "bool",   b |-> TRUE]                   *)
(*   float64                [t |-> "number", n |-> 1995]   (hundredths)    *)
(*   string                 [t |-> "string", s |-> "red"]                  *)
(*   []interface{}          [t |-> "array",  elems |-> <<...>>]            *)
(*   map[string]interface{} [t |-> "object", keys |-> [key |-> value]]     *)
(***************************************************************************)
EXTENDS Integers, Sequences, FiniteSets, TLC

----------------------------------------------------------------------------
(* Bounds of the model. *)

\* longest free-form index spec between the brackets (SpecIdx)
MaxSpecLen == 4
\* longest array the index filter is applied to (SpecIdx)
MaxArrLen == 3
\* longest free-form path expression handed to the compiler (SpecCompile)
MaxSelLen == 5
\* most segments in a generated path expression (Spec)
MaxSegs == 3
\* most fields of a struct handed to unmarshal (SpecUnmarshal)
MaxFields == 2

----------------------------------------------------------------------------
(* JSON values *)

Null == [t |-> "null"]
Bool(b) == [t |-> "bool", b |-> b]
Num(n) == [t |-> "number", n |-> n]
Str(s) == [t |-> "string", s |-> s]
Arr(es) == [t |-> "array", elems |-> es]
Obj(f) == [t |-> "object", keys |-> f]

IsArr(v) == v.t = "array"
IsObj(v) == v.t = "object"

----------------------------------------------------------------------------
(* Sequence helpers *)

Max(S) == CHOOSE x \in S : \A y \in S : y <= x
Min(S) == CHOOSE x \in S : \A y \in S : x <= y

RECURSIVE Flatten(_)
Flatten(ss) == IF ss = <<>> THEN <<>> ELSE Head(ss) \o Flatten(Tail(ss))

\* every sequence over S of length lo..hi
SeqsOf(S, lo, hi) == UNION {[1..n -> S] : n \in lo..hi}

\* every ordering of the elements of the finite set S
Orderings(S) ==
    {p \in [1..Cardinality(S) -> S] : \A i, j \in DOMAIN p : i # j => p[i] # p[j]}

----------------------------------------------------------------------------
(* regexp: the three segment grammars of filterMapping *)

DescGrammar == "\\.{2}\\w+"
AttrGrammar == "\\.\\w+"
IdxGrammar == "\\[.+\\]"

Digits == {"0", "1", "2", "3", "4", "5", "6", "7", "8", "9"}
Letters ==
    {"a", "b", "c", "d", "e", "f", "g", "h", "i", "j", "k", "l", "m",
     "n", "o", "p", "q", "r", "s", "t", "u", "v", "w", "x", "y", "z",
     "A", "B", "C", "D", "E", "F", "G", "H", "I", "J", "K", "L", "M",
     "N", "O", "P", "Q", "R", "S", "T", "U", "V", "W", "X", "Y", "Z"}

\* \w
IsWord(c) == c \in Digits \cup Letters \cup {"_"}

\* . (any character but a line feed)
IsDot(c) == c # "\n"

\* \w+ at position p, greedy: the last position of the run, p - 1 when there is none
WordRunEnd(s, p) ==
    LET ends == {q \in p..Len(s) : \A j \in p..q : IsWord(s[j])}
    IN  IF ends = {} THEN p - 1 ELSE Max(ends)

\* \[.+?\] at position p, were the pattern not greedy: up to the nearest "]"
IdxMatchEndNonGreedy(s, p) ==
    LET ends == {q \in (p + 2)..Len(s) :
                    s[q] = "]" /\ \A j \in (p + 1)..(q - 1) : IsDot(s[j])}
    IN  IF p > Len(s) \/ s[p] # "[" \/ ends = {} THEN 0 ELSE Min(ends)

\* \[.+\] at position p, greedy: the last position of the match (the farthest
\* "]" that only characters other than a line feed separate from the "["), 0
\* when there is none
IdxMatchEnd(s, p) ==
    LET ends == {q \in (p + 2)..Len(s) :
                    s[q] = "]" /\ \A j \in (p + 1)..(q - 1) : IsDot(s[j])}
    IN  IF p > Len(s) \/ s[p] # "[" \/ ends = {} THEN 0 ELSE Max(ends)

\* \.\w+ at position p
AttrMatchEnd(s, p) ==
    IF p + 1 <= Len(s) /\ s[p] = "." /\ IsWord(s[p + 1])
    THEN WordRunEnd(s, p + 1) ELSE 0

\* \.{2}\w+ at position p
DescMatchEnd(s, p) ==
    IF p + 2 <= Len(s) /\ s[p] = "." /\ s[p + 1] = "." /\ IsWord(s[p + 2])
    THEN WordRunEnd(s, p + 2) ELSE 0

\* one alternative of the combined pattern at position p: the last position of
\* its match, 0 when it does not match there
MatchEnd(g, s, p) ==
    CASE g = DescGrammar -> DescMatchEnd(s, p)
      [] g = AttrGrammar -> AttrMatchEnd(s, p)
      [] g = IdxGrammar -> IdxMatchEnd(s, p)

\* the combined pattern (g1)|(g2)|(g3) at position p, leftmost-first: the first
\* alternative, in the order they were joined, that matches there; 0 when none
FirstAlt(ms, s, p) ==
    LET hits == {i \in DOMAIN ms : MatchEnd(ms[i], s, p) > 0}
    IN  IF hits = {} THEN 0 ELSE Min(hits)

\* the submatches of one match: the whole match, then one group per alternative,
\* empty for the alternatives that did not take part
Submatch(ms, s, p, i) ==
    LET text == SubSeq(s, p, MatchEnd(ms[i], s, p))
    IN  <<text>> \o [j \in DOMAIN ms |-> IF j = i THEN text ELSE <<>>]

\* matcher.FindAllStringSubmatch(s, -1) from position p on: the successive
\* leftmost, non-overlapping matches
RECURSIVE FindAllFrom(_, _, _)
FindAllFrom(ms, s, p) ==
    LET starts == {q \in p..Len(s) : FirstAlt(ms, s, q) > 0}
    IN  IF starts = {} THEN <<>>
        ELSE LET q == Min(starts)
                 i == FirstAlt(ms, s, q)
             IN  <<Submatch(ms, s, q, i)>>
                     \o FindAllFrom(ms, s, MatchEnd(ms[i], s, q) + 1)

FindAllStringSubmatch(ms, s) == FindAllFrom(ms, s, 1)

----------------------------------------------------------------------------
(* strconv.Atoi and strings.Split *)

DigitVal(c) ==
    CASE c = "0" -> 0 [] c = "1" -> 1 [] c = "2" -> 2 [] c = "3" -> 3
      [] c = "4" -> 4 [] c = "5" -> 5 [] c = "6" -> 6 [] c = "7" -> 7
      [] c = "8" -> 8 [] c = "9" -> 9

RECURSIVE DecimalVal(_)
DecimalVal(ds) ==
    IF ds = <<>> THEN 0
    ELSE 10 * DecimalVal(SubSeq(ds, 1, Len(ds) - 1)) + DigitVal(ds[Len(ds)])

\* strconv.Atoi: an optional sign and one or more decimal digits. (Atoi also
\* reports a range error from 19 digits on; the texts of this model are far
\* shorter, and every value is computed exactly.)
Atoi(s) ==
    LET signed == s # <<>> /\ s[1] \in {"+", "-"}
        ds == IF signed THEN Tail(s) ELSE s
        wellFormed == ds # <<>> /\ \A j \in DOMAIN ds : ds[j] \in Digits
    IN  IF ~wellFormed THEN [err |-> TRUE, val |-> 0]
        ELSE [err |-> FALSE,
              val |-> IF signed /\ s[1] = "-" THEN -DecimalVal(ds) ELSE DecimalVal(ds)]

\* strings.Split(s, sep) for a one-character sep: the pieces between the
\* separators, always at least one
RECURSIVE Split(_, _)
Split(s, sep) ==
    LET at == {j \in DOMAIN s : s[j] = sep}
    IN  IF at = {} THEN <<s>>
        ELSE <<SubSeq(s, 1, Min(at) - 1)>> \o Split(SubSeq(s, Min(at) + 1, Len(s)), sep)

----------------------------------------------------------------------------
(* The filters. A filter's outcome is the slice it returns, or a panic; a    *)
(* filter yields the set of outcomes it can produce (more than one only      *)
(* where it ranges over a map, whose iteration order Go leaves open).        *)

Returns(vs) == [panic |-> FALSE, out |-> vs]
Panics == [panic |-> TRUE, out |-> <<>>]

\* the outcomes of running one after the other a sequence of calls, each given
\* by the set of its outcomes, and appending what they return
RECURSIVE AppendAll(_)
AppendAll(calls) ==
    IF calls = <<>> THEN {Returns(<<>>)}
    ELSE {IF a.panic \/ b.panic THEN Panics ELSE Returns(a.out \o b.out) :
             a \in Head(calls), b \in AppendAll(Tail(calls))}

\* attributeFilter: the value at the key f[1:] of a map, nothing otherwise
attributeFilter(f, v) ==
    LET name == Tail(f)
    IN  IF ~IsObj(v) THEN {Returns(<<>>)}
        ELSE IF name \notin DOMAIN v.keys THEN {Returns(<<>>)}
        ELSE {Returns(<<v.keys[name]>>)}

\* outOfRange with > for >=
outOfRangeStrict(idx, n) == (IF idx < 0 THEN -idx ELSE idx) > n

\* math.Abs(float64(idx)) >= float64(len(sl)), n the length of sl
outOfRange(idx, n) == (IF idx < 0 THEN -idx ELSE idx) >= n

\* slice[lo:hi], positions 0-based as in the source: a panic when lo > hi (hi
\* never exceeds the length where the source slices)
Reslice(slice, lo, hi) ==
    IF lo < 0 \/ lo > hi \/ hi > Len(slice) THEN Panics
    ELSE Returns(SubSeq(slice, lo + 1, hi))

\* the slice access of idxFilter: strings.Split on ":" and what follows
idxSliceAccess(f, slice) ==
    LET sl == Split(f, ":")
        n == Len(slice)
        a0 == Atoi(sl[1])
        badStart == sl[1] # <<>> /\ (a0.err \/ outOfRange(a0.val, n))
        start0 == IF sl[1] = <<>> THEN 0 ELSE a0.val
        start == IF start0 < 0 THEN start0 + n ELSE start0
    IN  IF badStart THEN Returns(<<>>)
        \* sl[1] of the source: a spec without ":" has one piece only
        ELSE IF Len(sl) < 2 THEN Panics
        ELSE LET a1 == Atoi(sl[2])
                 badEnd == sl[2] # <<>> /\ (a1.err \/ outOfRange(a1.val, n))
                 end0 == IF sl[2] = <<>> THEN n ELSE a1.val
                 end == IF end0 < 0 THEN end0 + n ELSE end0
             IN  IF badEnd THEN Returns(<<>>) ELSE Reslice(slice, start, end)

\* idxFilter: the wildcard, the simple index access, then the slice access
idxFilter(f, v) ==
    LET spec == SubSeq(f, 2, Len(f) - 1)
        i == Atoi(spec)
    IN  IF ~IsArr(v) THEN {Returns(<<>>)}
        ELSE IF spec = <<"*">> THEN {Returns(v.elems)}
        ELSE IF ~i.err
             THEN IF outOfRange(i.val, Len(v.elems)) THEN {Returns(<<>>)}
                  ELSE LET start == IF i.val < 0 THEN i.val + Len(v.elems) ELSE i.val
                       IN  {Reslice(v.elems, start, start + 1)}
        ELSE {idxSliceAccess(spec, v.elems)}

\* descendingAttributeFilter, were it to go on through the values of an object
\* after a direct hit
RECURSIVE descendingAttributeFilterDeep(_, _)
descendingAttributeFilterDeep(f, v) ==
    LET name == SubSeq(f, 3, Len(f))
    IN  IF IsObj(v)
        THEN LET hit == IF name \in DOMAIN v.keys
                        THEN {Returns(<<v.keys[name]>>)} ELSE {Returns(<<>>)}
             IN  UNION {AppendAll(<<hit>> \o
                            [i \in DOMAIN ord |->
                                descendingAttributeFilterDeep(f, v.keys[ord[i]])]) :
                        ord \in Orderings(DOMAIN v.keys)}
        ELSE IF IsArr(v)
        THEN AppendAll([i \in DOMAIN v.elems |->
                            descendingAttributeFilterDeep(f, v.elems[i])])
        ELSE {Returns(<<>>)}

\* descendingAttributeFilter: the direct hit alone when the object has the key,
\* otherwise the results for every value the object or the slice holds
RECURSIVE descendingAttributeFilter(_, _)
descendingAttributeFilter(f, v) ==
    LET name == SubSeq(f, 3, Len(f))
    IN  IF IsObj(v)
        THEN IF name \in DOMAIN v.keys THEN {Returns(<<v.keys[name]>>)}
             \* "for _, val := range o": the keys in any order
             ELSE UNION {AppendAll([i \in DOMAIN ord |->
                                       descendingAttributeFilter(f, v.keys[ord[i]])]) :
                         ord \in Orderings(DOMAIN v.keys)}
        ELSE IF IsArr(v)
        THEN AppendAll([i \in DOMAIN v.elems |->
                            descendingAttributeFilter(f, v.elems[i])])
        ELSE {Returns(<<>>)}

\* the filter values of filterMapping, by name
ApplyFilter(fn, f, v) ==
    CASE fn = "descendingAttributeFilter" -> descendingAttributeFilter(f, v)
      [] fn = "attributeFilter" -> attributeFilter(f, v)
      [] fn = "idxFilter" -> idxFilter(f, v)

filterMapping ==
    [g \in {DescGrammar, AttrGrammar, IdxGrammar} |->
        CASE g = DescGrammar -> "descendingAttributeFilter"
          [] g = AttrGrammar -> "attributeFilter"
          [] g = IdxGrammar -> "idxFilter"]

\* init() with the filters appended in a fixed order, whatever the iteration
initFixedFilters(order) ==
    [matchers |-> order,
     filters |-> <<"descendingAttributeFilter", "attributeFilter", "idxFilter">>]

\* init(): one pass over filterMapping, in the order the map iteration takes,
\* appends the grammar to matchers and its filter to filters
init(order) ==
    [matchers |-> order,
     filters |-> [i \in DOMAIN order |-> filterMapping[order[i]]]]

\* filterForSegmentResults(segmentResults): the first non-empty submatch and
\* the filter at its position; fn is "nil" when every submatch is empty
filterForSegmentResults(fs, segmentResults) ==
    LET hits == {i \in DOMAIN segmentResults : segmentResults[i] # <<>>}
    IN  IF hits = {} THEN [fn |-> "nil", s |-> <<>>]
        ELSE [fn |-> fs[Min(hits)], s |-> segmentResults[Min(hits)]]

\* the inner loop of Query with the results put in front of tempObjs
applySegmentReversed(fs, segmentResults, os) ==
    LET c == filterForSegmentResults(fs, Tail(segmentResults))
    IN  IF c.fn = "nil" THEN {Panics}
        ELSE AppendAll([i \in DOMAIN os |->
                           ApplyFilter(c.fn, c.s, os[Len(os) + 1 - i])])

\* one pass of Query's outer loop: the segment's filter on every object of the
\* working set, the results appended in that order (a nil filter cannot be called)
applySegment(fs, segmentResults, os) ==
    LET c == filterForSegmentResults(fs, Tail(segmentResults))
    IN  IF c.fn = "nil" THEN {Panics}
        ELSE AppendAll([i \in DOMAIN os |-> ApplyFilter(c.fn, c.s, os[i])])

----------------------------------------------------------------------------
(* State *)

VARIABLES
    matchers,   \* the grammars in the order init() joined them into matcher
    filters,    \* the package variable filters
    m,          \* j.m, the document root
    target,     \* the v handed to unmarshal, described by kind and fields
    op,         \* the exported function that is running
    sel,        \* the path expression
    pc,         \* "idle", "loop" (in Query's outer loop), "field" (in
                \* unmarshal's loop), "done" or "panic"
    segments,   \* Query's segments
    k,          \* the position of Query's outer loop in segments
    objs,       \* Query's objs
    ret,        \* what the function returned
    last,       \* what the previous call of Query returned for sel
    fi,         \* the position of unmarshal's loop in the fields
    st          \* the fields of the struct unmarshal fills

vars == <<matchers, filters, m, target, op, sel, pc, segments, k, objs, ret,
          last, fi, st>>

queryVars == <<segments, k, objs>>
unmarshalVars == <<target, fi, st>>

NoRet == [objs |-> <<>>, val |-> Null, ok |-> FALSE, err |-> ""]
NoLast == [set |-> FALSE, objs |-> <<>>]
NoTarget == [kind |-> "none", fields |-> <<>>]

----------------------------------------------------------------------------
(* Documents and path expressions *)

a == <<"a">>
b == <<"b">>
c == <<"c">>
store == <<"s", "t", "o", "r", "e">>
bicycle == <<"b", "i", "c", "y", "c", "l", "e">>
book == <<"b", "o", "o", "k">>
color == <<"c", "o", "l", "o", "r">>
price == <<"p", "r", "i", "c", "e">>
title == <<"t", "i", "t", "l", "e">>
author == <<"a", "u", "t", "h", "o", "r">>

\* the document of the tests (two of each book's string attributes kept)
Book(au, ti, pr) == Obj((author :> Str(au)) @@ (title :> Str(ti)) @@ (price :> Num(pr)))
Books ==
    <<Book("Nigel Rees", "Sayings of the Century", 895),
      Book("Evelyn Waugh", "Sword of Honour", 1299),
      Book("Herman Melville", "Moby Dick", 899),
      Book("J. R. R. Tolkien", "The Lord of the Rings", 2299)>>
documentBytes ==
    Obj(store :> Obj((bicycle :> Obj((color :> Str("red")) @@ (price :> Num(1995))))
                     @@ (book :> Arr(Books))))

\* {"a": {"b": "v"}}
DocAB == Obj(a :> Obj(b :> Str("v")))

\* {"a": {"a": 1, "b": {"a": 2}},
\*  "b": [{"a": true}, "s", {"b": {"a": null}, "c": {"a": 3}}]}
DocNest ==
    Obj((a :> Obj((a :> Num(100)) @@ (b :> Obj(a :> Num(200)))))
        @@ (b :> Arr(<<Obj(a :> Bool(TRUE)),
                       Str("s"),
                       Obj((b :> Obj(a :> Null)) @@ (c :> Obj(a :> Num(300))))>>)))

\* {"a": [10, 20, ...]} with n elements
DocArr(n) == Obj(a :> Arr([i \in 1..n |-> Num(10 * i)]))

Dollar == <<"$">>

\* the segments the generated expressions are made of
SegTexts == {<<".", "a">>, <<".", "b">>, <<".", ".", "a">>, <<"[", "*", "]">>, <<"[", "0", "]">>}
GenSels == {Dollar \o Flatten(ss) : ss \in SeqsOf(SegTexts, 0, MaxSegs)}

\* the expressions of the tests
TestSels ==
    {Dollar \o <<".">> \o store \o <<".">> \o bicycle \o <<".">> \o color,
     Dollar \o <<".", ".">> \o price,
     Dollar \o <<".", ".">> \o book \o <<".", ".">> \o price,
     Dollar \o <<".">> \o store \o <<".">> \o book \o <<"[", "0", "]", ".">> \o title}

Inputs == ({DocAB, DocNest} \X GenSels) \cup ({documentBytes} \X TestSels)

\* index specs: every text over IdxChars up to MaxSpecLen, and some longer ones
IdxChars == {"0", "1", "2", "-", ":", "*"}
IdxExtraSpecs ==
    {<<"-", "1", ":", "-", "2">>, <<"0", ":", "1", ":", "2">>, <<"2", ":", "1", ":", "0">>,
     <<"1", ":", "-", "1">>, <<"-", "2", ":", "2">>, <<"+", "1">>, <<"-", "3">>,
     <<"a", "b", "c">>,
     <<"a", ":", "b">>, <<"1", "x">>}
IdxSpecs == SeqsOf(IdxChars, 1, MaxSpecLen) \cup IdxExtraSpecs
IdxSel(spec) == Dollar \o <<".", "a", "[">> \o spec \o <<"]">>
InputsIdx == {<<DocArr(n), IdxSel(spec)>> : n \in 0..MaxArrLen, spec \in IdxSpecs}

\* free-form expressions for the compiler, and some longer ones
SelChars == {"$", ".", "a", "[", "]", "\n"}
ExtraSels ==
    {Dollar \o <<".", "a", "[", "0", "]", ".", "b", "[", "1", "]">>,
     <<"[", ".", ".", "a", "]", "]">>,
     <<".", ".", "a", "[", ".", "b", "]", "[", "a", "]">>,
     <<"[", "0", "]", "\n", "[", "1", "]">>}
InputsCompile == {DocNest} \X (SeqsOf(SelChars, 0, MaxSelLen) \cup ExtraSels)

----------------------------------------------------------------------------
(* Query *)

\* the first lines of Query: the segments of sel and the initial working set
QueryBegin(api, s) ==
    /\ op' = api
    /\ sel' = s
    /\ segments' = FindAllStringSubmatch(matchers, s)
    /\ objs' = <<m>>
    /\ k' = 1
    /\ pc' = "loop"
    /\ ret' = NoRet

\* a call of Query(sel)
QueryCall ==
    /\ pc = "idle"
    /\ QueryBegin("Query", sel)
    /\ UNCHANGED <<matchers, filters, m, last, unmarshalVars>>

\* one pass of the outer loop of Query, whoever called it
QuerySegment ==
    /\ pc = "loop"
    /\ k <= Len(segments)
    /\ \E r \in applySegment(filters, segments[k], objs) :
          IF r.panic
          THEN /\ pc' = "panic"
               /\ UNCHANGED <<objs, k>>
          ELSE /\ objs' = r.out
               /\ k' = k + 1
               /\ pc' = "loop"
    /\ UNCHANGED <<matchers, filters, m, op, sel, segments, ret, last, unmarshalVars>>

\* return objs
QueryReturn ==
    /\ pc = "loop"
    /\ op = "Query"
    /\ k > Len(segments)
    /\ ret' = [NoRet EXCEPT !.objs = objs]
    /\ pc' = "done"
    /\ UNCHANGED <<matchers, filters, m, op, sel, queryVars, last, unmarshalVars>>

\* the caller goes on after a call returned; what Query returned is kept to
\* compare the next call of Query with
Continue ==
    /\ pc = "done"
    /\ pc' = "idle"
    /\ last' = IF op = "Query" THEN [set |-> TRUE, objs |-> ret.objs] ELSE last
    /\ UNCHANGED <<matchers, filters, m, op, sel, queryVars, ret, unmarshalVars>>

----------------------------------------------------------------------------
(* String, Bool, Float *)

AccessorCall(api) ==
    /\ pc = "idle"
    /\ QueryBegin(api, sel)
    /\ UNCHANGED <<matchers, filters, m, last, unmarshalVars>>

\* the loop over Query's results of a single-value accessor: it returns in its
\* first pass, on the first result, whatever that result is
firstResult(results, variant, zero) ==
    IF results = <<>> THEN [NoRet EXCEPT !.val = zero, !.ok = FALSE]
    ELSE IF results[1].t # variant THEN [NoRet EXCEPT !.val = zero, !.ok = FALSE]
    ELSE [NoRet EXCEPT !.val = results[1], !.ok = TRUE]

AccessorReturn(api, variant, zero) ==
    /\ pc = "loop"
    /\ op = api
    /\ k > Len(segments)
    /\ ret' = firstResult(objs, variant, zero)
    /\ pc' = "done"
    /\ UNCHANGED <<matchers, filters, m, op, sel, queryVars, last, unmarshalVars>>

StringCall == AccessorCall("String")
StringReturn == AccessorReturn("String", "string", Str(""))
BoolCall == AccessorCall("Bool")
BoolReturn == AccessorReturn("Bool", "bool", Bool(FALSE))
FloatCall == AccessorCall("Float")
FloatReturn == AccessorReturn("Float", "number", Num(0))

----------------------------------------------------------------------------
(* unmarshal *)

\* a struct field: its name, the kind of its type ("slice" with the kind of the
\* elements), its jpath tag and whether reflection can set it (it is exported)
Field(name, kind, elem, tag, canSet) ==
    [name |-> name, kind |-> kind, elem |-> elem, tag |-> tag, canSet |-> canSet]

FieldChoices ==
    {Field("Color", "string", "", Dollar \o <<".">> \o store \o <<".">> \o bicycle \o <<".">> \o color, TRUE),
     Field("Prices", "slice", "float64", Dollar \o <<".", ".">> \o price, TRUE),
     Field("Cost", "float64", "", Dollar \o <<".", ".">> \o bicycle \o <<".">> \o price \o <<" ", "o", "u", "t">>, TRUE),
     Field("Isbn", "string", "", Dollar \o <<".">> \o store \o <<".", "i", "s", "b", "n">>, TRUE),
     Field("Sale", "bool", "", Dollar \o <<".", ".">> \o color, TRUE),
     Field("Titles", "slice", "float64", Dollar \o <<".", ".">> \o title, TRUE),
     Field("hidden", "string", "", Dollar \o <<".", ".">> \o color, FALSE),
     Field("Note", "string", "", <<>>, TRUE)}

\* v: a pointer to a struct, a pointer to something else, or no pointer at all
Targets ==
    {[kind |-> "ptrStruct", fields |-> fs] : fs \in SeqsOf(FieldChoices, 0, MaxFields)}
    \cup {[kind |-> "ptrOther", fields |-> <<>>], [kind |-> "value", fields |-> <<>>]}

\* reflect.ValueOf(x).Kind() of a decoded JSON value
KindOf(v) ==
    CASE v.t = "null" -> "invalid"
      [] v.t = "bool" -> "bool"
      [] v.t = "number" -> "float64"
      [] v.t = "string" -> "string"
      [] v.t = "array" -> "slice"
      [] v.t = "object" -> "map"

Zero == [t |-> "zero"]

\* unmarshal up to its loop: the reflection of v and the struct check
UnmarshalCall ==
    /\ pc = "idle"
    /\ op' = "unmarshal"
    /\ IF target.kind = "value"
       \* reflect.TypeOf(v).Elem() of a type that has no element type
       THEN /\ pc' = "panic"
            /\ UNCHANGED <<ret, fi, st>>
       ELSE IF target.kind # "ptrStruct"
       THEN /\ pc' = "done"
            /\ ret' = [NoRet EXCEPT !.err = "v must be a struct"]
            /\ UNCHANGED <<fi, st>>
       ELSE /\ pc' = "field"
            /\ fi' = 1
            /\ st' = [i \in DOMAIN target.fields |-> Zero]
            /\ ret' = NoRet
    /\ UNCHANGED <<matchers, filters, m, target, sel, queryVars, last>>

\* the head of one pass of unmarshal's loop, up to d.Query(query); after the
\* last field, return nil
UnmarshalField ==
    /\ pc = "field"
    /\ IF fi > Len(target.fields)
       THEN /\ pc' = "done"
            /\ ret' = [NoRet EXCEPT !.err = "nil"]
            /\ UNCHANGED <<op, sel, queryVars, fi>>
       ELSE IF ~target.fields[fi].canSet \/ target.fields[fi].tag = <<>>
       THEN /\ fi' = fi + 1
            /\ UNCHANGED <<op, sel, pc, queryVars, ret>>
       ELSE /\ QueryBegin("unmarshal", Split(target.fields[fi].tag, " ")[1])
            /\ UNCHANGED fi
    /\ UNCHANGED <<matchers, filters, m, target, last, st>>

\* what setting the field from Query's results comes to: "set" with the value,
\* "error" with the field's name, or "panic"
setField(field, results) ==
    IF field.kind # "slice"
    THEN IF results = <<>> THEN [how |-> "panic"]     \* results[0]
         ELSE IF KindOf(results[1]) = field.kind THEN [how |-> "set", val |-> results[1]]
         \* resultValue.Type() of the zero Value
         ELSE IF KindOf(results[1]) = "invalid" THEN [how |-> "panic"]
         ELSE [how |-> "error"]
    ELSE LET bad == {i \in DOMAIN results : KindOf(results[i]) # field.elem}
         IN  IF bad = {} THEN [how |-> "set", val |-> Arr(results)]
             \* reflect.Append panics and is recovered; resultValue.Type() in
             \* the deferred function panics again for the zero Value
             ELSE IF KindOf(results[Min(bad)]) = "invalid" THEN [how |-> "panic"]
             ELSE [how |-> "error"]

\* the rest of the pass, once Query has returned
UnmarshalSet ==
    /\ pc = "loop"
    /\ op = "unmarshal"
    /\ k > Len(segments)
    /\ LET r == setField(target.fields[fi], objs)
       IN  IF r.how = "set"
           THEN /\ st' = [st EXCEPT ![fi] = r.val]
                /\ fi' = fi + 1
                /\ pc' = "field"
                /\ UNCHANGED ret
           ELSE IF r.how = "error"
           THEN /\ ret' = [NoRet EXCEPT !.err = target.fields[fi].name]
                /\ pc' = "done"
                /\ UNCHANGED <<st, fi>>
           ELSE /\ pc' = "panic"
                /\ UNCHANGED <<st, fi, ret>>
    /\ UNCHANGED <<matchers, filters, m, target, op, sel, queryVars, last>>

----------------------------------------------------------------------------
(* Specifications *)

InitWith(inputs, targets) ==
    /\ \E order \in Orderings(DOMAIN filterMapping) :
          /\ matchers = init(order).matchers
          /\ filters = init(order).filters
    /\ \E in \in inputs :
          /\ m = in[1]
          /\ sel = in[2]
    /\ target \in targets
    /\ op = "none"
    /\ pc = "idle"
    /\ segments = <<>>
    /\ k = 1
    /\ objs = <<>>
    /\ ret = NoRet
    /\ last = NoLast
    /\ fi = 1
    /\ st = <<>>

Init == InitWith(Inputs, {NoTarget})

NextQuery == QueryCall \/ QuerySegment \/ QueryReturn \/ Continue

Next ==
    \/ QueryCall \/ QuerySegment \/ QueryReturn \/ Continue
    \/ StringCall \/ StringReturn
    \/ BoolCall \/ BoolReturn
    \/ FloatCall \/ FloatReturn

\* queries and typed accessors over the small documents and the test document
Spec == Init /\ [][Next]_vars

\* queries $.a[spec] over arrays of every length up to MaxArrLen
InitIdx == InitWith(InputsIdx, {NoTarget})
SpecIdx == InitIdx /\ [][NextQuery]_vars

\* queries with free-form expressions
InitCompile == InitWith(InputsCompile, {NoTarget})
SpecCompile == InitCompile /\ [][NextQuery]_vars

\* unmarshal of the test document into structs of up to MaxFields fields
InitUnmarshal == InitWith({<<documentBytes, <<>> >>}, Targets)
NextUnmarshal == UnmarshalCall \/ UnmarshalField \/ QuerySegment \/ UnmarshalSet \/ Continue
SpecUnmarshal == InitUnmarshal /\ [][NextUnmarshal]_vars

----------------------------------------------------------------------------
(* What the claims read off a state *)

\* the call that is running or has ended has gone through Query's loop
Returned(api) == pc = "done" /\ op = api

\* segment j of the running query: its filter and its text
SegmentCall(j) == filterForSegmentResults(filters, Tail(segments[j]))

\* the values a set of outcomes returns
Outs(rs) == {r.out : r \in {x \in rs : ~x.panic}}

----------------------------------------------------------------------------
(* C1 *)

\* the concatenation, value by value and in the order of the working set w, of
\* a filter output for each value
RECURSIVE C1_FlatMap(_, _)
C1_FlatMap(j, w) ==
    IF w = <<>> THEN {<<>>}
    ELSE {x \o y : x \in Outs(ApplyFilter(SegmentCall(j).fn, SegmentCall(j).s, Head(w))),
                   y \in C1_FlatMap(j, Tail(w))}

\* the working sets the fold can hold after the first n segments
RECURSIVE C1_Fold(_)
C1_Fold(n) ==
    IF n = 0 THEN {<<m>>}
    ELSE UNION {C1_FlatMap(n, w) : w \in C1_Fold(n - 1)}

\* C1: Query(expression) is the left-to-right fold over the compiled segments:
\* the working set starts as [root], each segment in turn replaces it by the
\* concatenation of its filter's output for each current value, earlier values'
\* outputs first, and the final working set is returned; $.a.b over a root
\* holding a: {b: v} returns exactly [v].
C1_QueryIsFold ==
    /\ (pc = "loop" /\ op = "Query") => objs \in C1_Fold(k - 1)
    /\ Returned("Query") => ret.objs \in C1_Fold(Len(segments))
    /\ (Returned("Query") /\ sel = Dollar \o <<".", "a", ".", "b">>
            /\ a \in DOMAIN m.keys /\ IsObj(m.keys[a]) /\ b \in DOMAIN m.keys[a].keys)
          => ret.objs = <<m.keys[a].keys[b]>>

\* $.b[*]..a over DocNest: a three-element working set goes through a segment
C1_Witness ==
    /\ Returned("Query")
    /\ m = DocNest
    /\ sel = Dollar \o <<".", "b", "[", "*", "]", ".", ".", "a">>
    /\ ret.objs = <<Bool(TRUE), Num(300), Null>>

----------------------------------------------------------------------------
(* C4 *)

RECURSIVE SubValues(_)
SubValues(v) ==
    {v} \cup
    IF IsObj(v) THEN UNION {SubValues(v.keys[key]) : key \in DOMAIN v.keys}
    ELSE IF IsArr(v) THEN UNION {SubValues(v.elems[i]) : i \in DOMAIN v.elems}
    ELSE {}

\* the concatenations of one result for each of the values vs, in that order
RECURSIVE C4_Concat(_, _)
C4_Concat(f, vs) ==
    IF vs = <<>> THEN {<<>>}
    ELSE {x \o y : x \in Outs(descendingAttributeFilter(f, Head(vs))),
                   y \in C4_Concat(f, Tail(vs))}

\* what the claim says of the filter for segment text f on the one value v
C4_OnValue(f, v) ==
    LET name == SubSeq(f, 3, Len(f))
        got == descendingAttributeFilter(f, v)
    IN  IF IsObj(v) /\ name \in DOMAIN v.keys
        THEN got = {Returns(<<v.keys[name]>>)}
        ELSE IF IsObj(v)
        THEN /\ \A r \in got : ~r.panic
             /\ Outs(got) = UNION {C4_Concat(f, [i \in DOMAIN ord |-> v.keys[ord[i]]]) :
                                      ord \in Orderings(DOMAIN v.keys)}
        ELSE IF IsArr(v)
        THEN /\ \A r \in got : ~r.panic
             /\ Outs(got) = C4_Concat(f, v.elems)
        ELSE got = {Returns(<<>>)}

\* C4: ..name on an Object that directly holds name returns exactly that key's
\* value, without searching the other keys or beneath the value; on an Object
\* without the key, or an Array, the concatenation of the filter on each held
\* value; on a scalar, nothing. On the store document $..price returns 5
\* numbers and $..book..price exactly the 4 book prices.
C4_Descendant ==
    /\ (pc = "loop" /\ k <= Len(segments)
            /\ SegmentCall(k).fn = "descendingAttributeFilter")
          => \A i \in DOMAIN objs : \A v \in SubValues(objs[i]) :
                C4_OnValue(SegmentCall(k).s, v)
    /\ (Returned("Query") /\ sel = Dollar \o <<".", ".">> \o price /\ m = documentBytes)
          => /\ Len(ret.objs) = 5
             /\ \A i \in DOMAIN ret.objs : ret.objs[i].t = "number"
    /\ (Returned("Query") /\ sel = Dollar \o <<".", ".">> \o book \o <<".", ".">> \o price
            /\ m = documentBytes)
          => ret.objs = <<Num(895), Num(1299), Num(899), Num(2299)>>
    /\ (Returned("Query") /\ sel = Dollar \o <<".", ".", "a">> /\ a \in DOMAIN m.keys)
          => ret.objs = <<m.keys[a]>>

\* $..a over DocNest, whose root holds a above two deeper a's
C4_Witness ==
    /\ Returned("Query")
    /\ m = DocNest
    /\ sel = Dollar \o <<".", ".", "a">>
    /\ ret.objs = <<DocNest.keys[a]>>

----------------------------------------------------------------------------
(* C5 *)

\* C5: two runs of the same Query call against the unmodified tree return the
\* same sequence, values and positions, also for a descendant search that fans
\* out over an Object with several keys.
C5_SameResultAgain ==
    (Returned("Query") /\ last.set) => ret.objs = last.objs

----------------------------------------------------------------------------
(* C7 *)

C7_Variant ==
    CASE op = "String" -> "string" [] op = "Bool" -> "bool" [] op = "Float" -> "number"

\* C7: String, Bool and Float return the first value of Query(expression) that
\* has the requested variant, with flag true, skipping earlier matches of other
\* variants; the flag is false only when no match has the variant.
C7_FirstConforming ==
    (pc = "done" /\ op \in {"String", "Bool", "Float"}) =>
        LET conforming == {i \in DOMAIN objs : objs[i].t = C7_Variant}
        IN  IF conforming = {} THEN ~ret.ok
            ELSE ret.ok /\ ret.val = objs[Min(conforming)]

----------------------------------------------------------------------------
(* C2, C3, C6: the index filter, on the queries $.a[spec] of SpecIdx *)

\* the spec between the brackets of sel = $.a[spec], and the array at a
IdxSpec == SubSeq(sel, 5, Len(sel) - 1)
IdxArray == m.keys[a].elems

\* the query ended: it returned or it panicked
Ended == op = "Query" /\ pc \in {"done", "panic"}

Abs(x) == IF x < 0 THEN -x ELSE x

\* C2: for every array of length n and signed integer i, [i] returns exactly
\* the element at position i when 0 <= i < n, exactly the element at position
\* i + n when -n < i < 0, and nothing when i >= n or i <= -n; it never fails.
C2_IndexAccess ==
    (Ended /\ ~Atoi(IdxSpec).err) =>
        LET i == Atoi(IdxSpec).val
            n == Len(IdxArray)
        IN  /\ pc = "done"
            /\ ret.objs = IF 0 <= i /\ i < n THEN <<IdxArray[i + 1]>>
                          ELSE IF -n < i /\ i < 0 THEN <<IdxArray[i + n + 1]>>
                          ELSE <<>>

\* [-1] over an array of three returns its last element, and [-3] nothing
C2_Witness ==
    /\ Returned("Query")
    /\ Len(IdxArray) = 3
    /\ \/ IdxSpec = <<"-", "1">> /\ ret.objs = <<Num(30)>>
       \/ IdxSpec = <<"-", "3">> /\ ret.objs = <<>>

\* a slice bound as the claim admits it: omitted, or an integer b with |b| < n
C3_Bound(piece, n) ==
    piece = <<>> \/ (~Atoi(piece).err /\ Abs(Atoi(piece).val) < n)

\* the bound normalized: the default when omitted, n added when negative
C3_Norm(piece, default, n) ==
    IF piece = <<>> THEN default
    ELSE IF Atoi(piece).val < 0 THEN Atoi(piece).val + n ELSE Atoi(piece).val

\* C3: for every array of length n and slice start:end whose bounds are each
\* omitted or an integer b with |b| < n, the index filter returns exactly the
\* elements at the positions p with start <= p < end, in order; when the
\* normalized start >= end it returns nothing and does not fail, and [:]
\* returns all n elements.
C3_SliceAccess ==
    LET pieces == Split(IdxSpec, ":")
        n == Len(IdxArray)
    IN  (Ended /\ Len(pieces) = 2 /\ C3_Bound(pieces[1], n) /\ C3_Bound(pieces[2], n)) =>
            LET start == C3_Norm(pieces[1], 0, n)
                end == C3_Norm(pieces[2], n, n)
            IN  /\ pc = "done"
                /\ ret.objs = SubSeq(IdxArray, start + 1, end)

\* a spec the claim counts as well-formed: *, a signed integer, or a slice with
\* exactly one ":" and each side empty or a signed integer
C6_WellFormed(spec) ==
    \/ spec = <<"*">>
    \/ ~Atoi(spec).err
    \/ LET pieces == Split(spec, ":")
       IN  /\ Len(pieces) = 2
           /\ \A j \in 1..2 : pieces[j] = <<>> \/ ~Atoi(pieces[j]).err

\* C6: for every array, an index spec that is not *, not a signed integer and
\* not a slice with exactly one ":" is malformed, and the index filter returns
\* nothing for it without failing; so for 0:1:2, ::, abc and a:b.
C6_MalformedIsEmpty ==
    (Ended /\ ~C6_WellFormed(IdxSpec)) => (pc = "done" /\ ret.objs = <<>>)

----------------------------------------------------------------------------
(* C8 *)

\* unmarshal has ended on field fi, which is not a slice, after Query returned
\* nothing for its tag
C8_EmptyResult ==
    /\ op = "unmarshal"
    /\ pc \in {"done", "panic"}
    /\ fi \in DOMAIN target.fields
    /\ target.fields[fi].kind # "slice"
    /\ k > Len(segments)
    /\ objs = <<>>

\* C8: Unmarshal of a tagged, settable field that is not a slice and whose
\* query returns nothing ends by returning an error that names the field; it
\* does not crash, and the field is not assigned.
C8_EmptyResultIsError ==
    C8_EmptyResult =>
        /\ pc = "done"
        /\ ret.err = target.fields[fi].name
        /\ st[fi] = Zero

----------------------------------------------------------------------------
(* C9, C10: the compiler, on the free-form expressions of SpecCompile *)

\* the filter registered for the grammar a matched text belongs to, read off
\* the text: [...] is an index, ..name a descendant, .name a child
C9_FilterOfText(text) ==
    IF text[1] = "[" THEN filterMapping[IdxGrammar]
    ELSE IF Len(text) >= 2 /\ text[2] = "." THEN filterMapping[DescGrammar]
    ELSE filterMapping[AttrGrammar]

\* where ..name and .name start in s
C9_DescStarts(s) ==
    {p \in 1..(Len(s) - 2) : s[p] = "." /\ s[p + 1] = "." /\ IsWord(s[p + 2])}
C9_AttrStarts(s) ==
    {p \in 1..(Len(s) - 1) : s[p] = "." /\ IsWord(s[p + 1]) /\ (p = 1 \/ s[p - 1] # ".")}

C9_Count(fn) == Cardinality({j \in DOMAIN segments : SegmentCall(j).fn = fn})

\* sel is ..name or $..name
C9_IsDescText(s) ==
    LET body == IF s # <<>> /\ s[1] = "$" THEN Tail(s) ELSE s
    IN  /\ Len(body) >= 3
        /\ body[1] = "." /\ body[2] = "."
        /\ \A j \in 3..Len(body) : IsWord(body[j])

\* C9: in whatever order init joined the three grammars, each matched segment
\* goes to the filter registered for the grammar that matched it, and ..name
\* compiles to exactly one Descendant segment for name, never to a Child
\* segment or to two matches.
C9_Dispatch ==
    (op = "Query") =>
        /\ \A j \in DOMAIN segments :
              /\ SegmentCall(j).s = segments[j][1]
              /\ SegmentCall(j).fn = C9_FilterOfText(segments[j][1])
        /\ C9_IsDescText(sel) =>
              /\ Len(segments) = 1
              /\ SegmentCall(1).fn = "descendingAttributeFilter"
              /\ SegmentCall(1).s = (IF sel[1] = "$" THEN Tail(sel) ELSE sel)
        /\ (\A j \in DOMAIN sel : sel[j] # "[") =>
              /\ C9_Count("descendingAttributeFilter") = Cardinality(C9_DescStarts(sel))
              /\ C9_Count("attributeFilter") = Cardinality(C9_AttrStarts(sel))
              /\ C9_Count("idxFilter") = 0

\* $..a compiled by a pattern whose first alternative is the child grammar
C9_Witness ==
    /\ Returned("Query")
    /\ matchers[1] = AttrGrammar
    /\ sel = Dollar \o <<".", ".", "a">>
    /\ Len(segments) = 1
    /\ SegmentCall(1).fn = "descendingAttributeFilter"

\* the first "[" and the last "]" of s
C10_Open(s) == Min({j \in DOMAIN s : s[j] = "["})
C10_Close(s) == Max({j \in DOMAIN s : s[j] = "]"})

\* s holds a "[" followed by more than one "]"
C10_Applies(s) ==
    /\ \E j \in DOMAIN s : s[j] = "["
    /\ Cardinality({j \in DOMAIN s : s[j] = "]" /\ j > C10_Open(s)}) > 1

\* the matched texts of the segments of s
C10_Texts(s) ==
    LET found == FindAllStringSubmatch(matchers, s)
    IN  [j \in DOMAIN found |-> found[j][1]]

\* the span from the first "[" to the last "]" is one Index segment, and the
\* only segments besides it are those of the text before and of the text after
C10_OneSpan ==
    LET p == C10_Open(sel)
        q == C10_Close(sel)
        j == Len(C10_Texts(SubSeq(sel, 1, p - 1))) + 1
    IN  /\ [i \in DOMAIN segments |-> segments[i][1]]
              = C10_Texts(SubSeq(sel, 1, p - 1)) \o <<SubSeq(sel, p, q)>>
                    \o C10_Texts(SubSeq(sel, q + 1, Len(sel)))
        /\ SegmentCall(j).fn = "idxFilter"
        /\ SegmentCall(j).s = SubSeq(sel, p, q)

\* C10 as claimed: when an expression holds a "[" followed by more than one
\* "]", the whole span from the first "[" to the last "]" compiles to a single
\* Index segment and nothing inside it produces a segment of its own.
C10_GreedyAsClaimed ==
    (op = "Query" /\ C10_Applies(sel)) => C10_OneSpan

\* C10 as amended: the same, for an expression with no line feed between the
\* first "[" and the last "]".
C10_Greedy ==
    (op = "Query" /\ C10_Applies(sel)
        /\ \A i \in C10_Open(sel)..C10_Close(sel) : sel[i] # "\n") => C10_OneSpan

\* $.a[0].b[1] compiles to .a and the one index segment [0].b[1]
C10_Witness ==
    /\ Returned("Query")
    /\ sel = Dollar \o <<".", "a", "[", "0", "]", ".", "b", "[", "1", "]">>
    /\ Len(segments) = 2
    /\ SegmentCall(1).s = <<".", "a">>
    /\ SegmentCall(2).fn = "idxFilter"
    /\ SegmentCall(2).s = <<"[", "0", "]", ".", "b", "[", "1", "]">>

=============================================================================
